---- MODULE Spec2Model ----
(***************************************************************************)
(* Model of MyExampleAgent (src/KAgent.py): the Gomoku agent's line        *)
(* scanner / threat detector (_find_threat_move), move scorer              *)
(* (_score_move), candidate annotation (_annotate_move) and the turn       *)
(* policy (get_move) with its single suspension point at llm.complete.     *)
(*                                                                         *)
(* The game framework (board, board_size, is_valid_move, get_legal_moves)  *)
(* and the language-model client are collaborators: the framework is       *)
(* modelled from its interface, the client as a nondeterministic reply.    *)
(***************************************************************************)
EXTENDS Integers, Sequences, FiniteSets

VARIABLES
    game_state,     \* the framework's GameState: board, board_size, forbidden
    player,         \* self.player.value, fixed when the agent is created
    pc,             \* "idle" | "awaiting" (suspended at llm.complete) | "returned" | "raised"
    call,           \* the invocation in progress / last made
    entry_board,    \* the board as it was when the invocation started
    scored_moves,   \* get_move's local: (move, score) in get_legal_moves order
    top_moves,      \* get_move's local: the (at most 3) candidates offered
    annotations,    \* get_move's local: the tags _annotate_move gave each candidate
    threat_summary, \* get_move's local: which of the four summary lookups hit
    llm_calls,      \* number of llm.complete invocations
    content,        \* the oracle's response text, tokenised
    log,            \* what self.log printed (debug is always on)
    ret             \* the value the invocation returned

vars == << game_state, player, pc, call, entry_board, scored_moves, top_moves,
           annotations, threat_summary, llm_calls, content, log, ret >>

----------------------------------------------------------------------------
(* Values *)

EMPTY == "."
BLACK == "X"
WHITE == "O"
Symbols == {BLACK, WHITE}
CellValues == {EMPTY, BLACK, WHITE}

\* Python's None; a move is a pair <<r, c>>, so `if move:` is `move # None`
None == << >>

\* the window length: range(5), end = start + 4 * step
WINDOW == 5

\* the scan's direction list, in its order
Directions == << <<0, 1>>, <<1, 0>>, <<1, 1>>, <<1, -1>> >>

\* the largest board size the agent is run on
MaxSize == 6

\* the largest number of tokens in a response text
MaxTokens == 2

\* the number of candidates offered to the oracle: scored_moves[:3]
TOP_K == 3

----------------------------------------------------------------------------
(* The framework's GameState, as the agent uses it *)

in_range(v, size) == 0 <= v /\ v < size

\* game_state.board[r][c]
Cell(gs, r, c) == gs.board[r + 1][c + 1]

\* game_state.is_valid_move(r, c): an empty in-bounds cell that the rule
\* variant in force does not forbid
is_valid_move(gs, r, c) ==
    /\ in_range(r, gs.board_size)
    /\ in_range(c, gs.board_size)
    /\ Cell(gs, r, c) = EMPTY
    /\ <<r, c>> \notin gs.forbidden

\* the cells of a board of the given size, row-major
RowMajor(size) == [k \in 1..(size * size) |-> <<(k - 1) \div size, (k - 1) % size>>]

\* game_state.get_legal_moves(): the valid moves, row-major
get_legal_moves(gs) ==
    LET valid(m) == is_valid_move(gs, m[1], m[2])
    IN  SelectSeq(RowMajor(gs.board_size), valid)

----------------------------------------------------------------------------
(* Line scanner and threat detector *)

\* seq.count(x)
count(seq, x) == Cardinality({i \in DOMAIN seq : seq[i] = x})

\* seq.index(x), 0-based; only evaluated when x occurs in seq
index(seq, x) ==
    CHOOSE i \in 0..(Len(seq) - 1) :
        seq[i + 1] = x /\ \A j \in 0..(i - 1) : seq[j + 1] # x

check_pattern(seq, symbol, count_stones, count_empty) ==
    count(seq, symbol) = count_stones /\ count(seq, EMPTY) = count_empty

\* mutant of window_index: the last empty cell of the window instead of the first
window_index_last(seq) ==
    CHOOSE i \in 0..(Len(seq) - 1) :
        seq[i + 1] = EMPTY /\ \A j \in (i + 1)..(Len(seq) - 1) : seq[j + 1] # EMPTY

\* the cell of a matching window that the scan offers: seq.index(".")
window_index(seq) == index(seq, EMPTY)

\* mutant of move_accepted: the move is returned without asking is_valid_move
move_accepted_unchecked(gs, move) == TRUE

\* the validity test applied to a matching window's move
move_accepted(gs, move) == is_valid_move(gs, move[1], move[2])

\* the window test of the innermost loop: both end coordinates on the board
window_fits(size, r, c, dr, dc) ==
    in_range(r + dr * 4, size) /\ in_range(c + dc * 4, size)

\* the windows the three nested loops reach, in the order they reach them:
\* start cells row-major, directions in list order, those that fit; each
\* with its five cells (r + dr * i, c + dc * i), i in range(5)
windows_scanned(size) ==
    LET nd    == Len(Directions)
        step  == [k \in 1..(size * size * nd) |->
                    [r  |-> (k - 1) \div (size * nd),
                     c  |-> ((k - 1) \div nd) % size,
                     dr |-> Directions[((k - 1) % nd) + 1][1],
                     dc |-> Directions[((k - 1) % nd) + 1][2]]]
        fits(w) == window_fits(size, w.r, w.c, w.dr, w.dc)
        fitting == SelectSeq(step, fits)
    IN  [k \in DOMAIN fitting |->
            [i \in 1..WINDOW |-> <<fitting[k].r + fitting[k].dr * (i - 1),
                                   fitting[k].c + fitting[k].dc * (i - 1)>>]]

\* computed once per board size
ScanOrder == [size \in WINDOW..(MaxSize + 2) |-> windows_scanned(size)]

\* the body of the innermost loop for a window that fits, given by its
\* cells: the move returned there, or None when the loop goes on
window_move(gs, symbol, stones_needed, empty_needed, cells) ==
    LET seq == [i \in 1..WINDOW |-> Cell(gs, cells[i][1], cells[i][2])]
    IN  IF check_pattern(seq, symbol, stones_needed, empty_needed)
        THEN LET move == cells[window_index(seq) + 1]
             IN  IF move_accepted(gs, move) THEN move ELSE None
        ELSE None

\* mutant of find_threat_move: the scan keeps the last window that yields a move
find_threat_move_last(gs, symbol, stones_needed, empty_needed) ==
    LET windows == ScanOrder[gs.board_size]
        hits    == {k \in DOMAIN windows :
                      window_move(gs, symbol, stones_needed, empty_needed, windows[k]) # None}
    IN  IF hits = {}
        THEN None
        ELSE window_move(gs, symbol, stones_needed, empty_needed,
                         windows[CHOOSE k \in hits : \A j \in hits : k >= j])

\* the loops return at the first window that yields a move
find_threat_move(gs, symbol, stones_needed, empty_needed) ==
    LET windows == ScanOrder[gs.board_size]
        hits    == {k \in DOMAIN windows :
                      window_move(gs, symbol, stones_needed, empty_needed, windows[k]) # None}
    IN  IF hits = {}
        THEN None
        ELSE window_move(gs, symbol, stones_needed, empty_needed,
                         windows[CHOOSE k \in hits : \A j \in hits : k <= j])

----------------------------------------------------------------------------
(* Move scorer *)

abs(x) == IF x < 0 THEN -x ELSE x
max(a, b) == IF a >= b THEN a ELSE b

Neighbours == {d \in (-1..1) \X (-1..1) : d # <<0, 0>>}

\* mutant of undo_placement: the placed stone is left on the board
undo_placement_skipped(gs, move) == gs

\* the board write that ends _score_move
undo_placement(gs, move) == [gs EXCEPT !.board[move[1] + 1][move[2] + 1] = EMPTY]

\* the centrality bonus
centrality_bonus(size, r, c) ==
    LET center == size \div 2
    IN  max(0, (center - abs(r - center)) + (center - abs(c - center)))

\* the adjacency bonus: the two nested loops over dr, dc
adjacency_bonus(gs, r, c, player_symbol, rival_symbol) ==
    LET size == gs.board_size
        adjacent == {d \in Neighbours :
                        /\ in_range(r + d[1], size)
                        /\ in_range(c + d[2], size)
                        /\ Cell(gs, r + d[1], c + d[2]) \in {player_symbol, rival_symbol}}
    IN  2 * Cardinality(adjacent)

\* mutant of threat_bonus: the four tests chained with elif, so only the first counts
threat_bonus_exclusive(placed, player_symbol, rival_symbol) ==
    IF find_threat_move(placed, player_symbol, 4, 1) # None THEN 50
    ELSE IF find_threat_move(placed, rival_symbol, 4, 1) # None THEN 45
    ELSE IF find_threat_move(placed, player_symbol, 3, 2) # None THEN 20
    ELSE IF find_threat_move(placed, rival_symbol, 3, 2) # None THEN 15
    ELSE 0

\* the threat potential: four independent tests on the board with the stone placed
threat_bonus(placed, player_symbol, rival_symbol) ==
      (IF find_threat_move(placed, player_symbol, 4, 1) # None THEN 50 ELSE 0)
    + (IF find_threat_move(placed, rival_symbol, 4, 1) # None THEN 45 ELSE 0)
    + (IF find_threat_move(placed, player_symbol, 3, 2) # None THEN 20 ELSE 0)
    + (IF find_threat_move(placed, rival_symbol, 3, 2) # None THEN 15 ELSE 0)

\* _score_move: the score, and the game state it leaves behind
score_move(gs, move, player_symbol, rival_symbol) ==
    LET r      == move[1]
        c      == move[2]
        placed == [gs EXCEPT !.board[r + 1][c + 1] = player_symbol]
    IN  [score      |-> centrality_bonus(gs.board_size, r, c)
                        + adjacency_bonus(gs, r, c, player_symbol, rival_symbol)
                        + threat_bonus(placed, player_symbol, rival_symbol),
         game_state |-> undo_placement(placed, move)]

----------------------------------------------------------------------------
(* Candidate annotation *)

annotate_move(gs, move, player_symbol, rival_symbol) ==
    LET annotations0 ==
            (IF find_threat_move(gs, rival_symbol, 4, 1) = move
                THEN <<"Blocks opponent's open-4">> ELSE << >>)
         \o (IF find_threat_move(gs, player_symbol, 4, 1) = move
                THEN <<"Completes your open-4">> ELSE << >>)
         \o (IF find_threat_move(gs, rival_symbol, 3, 2) = move
                THEN <<"Blocks opponent's open-3">> ELSE << >>)
         \o (IF find_threat_move(gs, player_symbol, 3, 2) = move
                THEN <<"Extends your open-3">> ELSE << >>)
    IN  IF annotations0 = << >> THEN <<"Positional advantage">> ELSE annotations0

----------------------------------------------------------------------------
(* Turn policy: get_move up to its suspension point *)

\* rival_symbol = (WHITE if player == BLACK else BLACK).value
rival_of(player_symbol) == IF player_symbol = BLACK THEN WHITE ELSE BLACK

\* mutant of forced_move: the block is tried before the win
forced_move_block_first(gs, player_symbol, rival_symbol) ==
    LET block == find_threat_move(gs, rival_symbol, 4, 1)
    IN  IF block # None
        THEN [move |-> block, reason |-> "Immediate Block"]
        ELSE LET win == find_threat_move(gs, player_symbol, 4, 1)
             IN  IF win # None
                 THEN [move |-> win, reason |-> "Immediate Win"]
                 ELSE LET block3 == find_threat_move(gs, rival_symbol, 3, 2)
                      IN  IF block3 # None
                          THEN [move |-> block3, reason |-> "Block 3-in-a-row"]
                          ELSE [move |-> None, reason |-> ""]

\* mutant of forced_move: the opponent's three is not looked for
forced_move_without_three(gs, player_symbol, rival_symbol) ==
    LET win == find_threat_move(gs, player_symbol, 4, 1)
    IN  IF win # None
        THEN [move |-> win, reason |-> "Immediate Win"]
        ELSE LET block == find_threat_move(gs, rival_symbol, 4, 1)
             IN  IF block # None
                 THEN [move |-> block, reason |-> "Immediate Block"]
                 ELSE [move |-> None, reason |-> ""]

\* steps 1 and 2 of get_move: the three forced-move lookups, in order; the
\* first that hits is returned with the reason it logs
forced_move(gs, player_symbol, rival_symbol) ==
    LET win == find_threat_move(gs, player_symbol, 4, 1)
    IN  IF win # None
        THEN [move |-> win, reason |-> "Immediate Win"]
        ELSE LET block == find_threat_move(gs, rival_symbol, 4, 1)
             IN  IF block # None
                 THEN [move |-> block, reason |-> "Immediate Block"]
                 ELSE LET block3 == find_threat_move(gs, rival_symbol, 3, 2)
                      IN  IF block3 # None
                          THEN [move |-> block3, reason |-> "Block 3-in-a-row"]
                          ELSE [move |-> None, reason |-> ""]

\* the list comprehension of step 3: _score_move on each legal move in turn,
\* each call working on the board the previous one left
RECURSIVE score_all(_, _, _, _, _)
score_all(gs, legal_moves, i, player_symbol, rival_symbol) ==
    IF i > Len(legal_moves)
    THEN [scored |-> << >>, game_state |-> gs]
    ELSE LET one  == score_move(gs, legal_moves[i], player_symbol, rival_symbol)
             rest == score_all(one.game_state, legal_moves, i + 1, player_symbol, rival_symbol)
         IN  [scored     |-> << <<legal_moves[i], one.score>> >> \o rest.scored,
              game_state |-> rest.game_state]

\* mutant of insert_sorted: x goes before the items of equal score, so ties
\* come out in reverse order
insert_sorted_unstable(sorted, x) ==
    LET before == Cardinality({i \in DOMAIN sorted : sorted[i][2] > x[2]})
    IN  SubSeq(sorted, 1, before) \o <<x>> \o SubSeq(sorted, before + 1, Len(sorted))

\* where a stable descending sort puts x among already sorted items: after
\* every item whose score is at least x's
insert_sorted(sorted, x) ==
    LET before == Cardinality({i \in DOMAIN sorted : sorted[i][2] >= x[2]})
    IN  SubSeq(sorted, 1, before) \o <<x>> \o SubSeq(sorted, before + 1, Len(sorted))

\* scored_moves.sort(key=lambda x: x[1], reverse=True): stable
RECURSIVE sort_prefix(_, _)
sort_prefix(scored, n) ==
    IF n = 0 THEN << >> ELSE insert_sorted(sort_prefix(scored, n - 1), scored[n])

sort_by_score(scored) == sort_prefix(scored, Len(scored))

\* scored_moves[:3]
take_top(sorted) == SubSeq(sorted, 1, IF Len(sorted) < TOP_K THEN Len(sorted) ELSE TOP_K)

\* step 5: the four summary lookups, in order; those that hit
summarize_threats(gs, player_symbol, rival_symbol) ==
    LET opp4 == find_threat_move(gs, rival_symbol, 4, 1)
        my4  == find_threat_move(gs, player_symbol, 4, 1)
        opp3 == find_threat_move(gs, rival_symbol, 3, 2)
        my3  == find_threat_move(gs, player_symbol, 3, 2)
    IN     (IF opp4 # None THEN << <<"opp4", opp4>> >> ELSE << >>)
        \o (IF my4 # None THEN << <<"my4", my4>> >> ELSE << >>)
        \o (IF opp3 # None THEN << <<"opp3", opp3>> >> ELSE << >>)
        \o (IF my3 # None THEN << <<"my3", my3>> >> ELSE << >>)

\* step 8: top_moves[0][0]
fallback_move(top) == top[1][1]

\* get_move from entry to its first return or to the await: everything it
\* computes on the way
get_move_sync(gs, player_symbol) ==
    LET rival_symbol == rival_of(player_symbol)
        forced       == forced_move(gs, player_symbol, rival_symbol)
        legal_moves  == get_legal_moves(gs)
        base == [pc |-> "returned", ret |-> None, game_state |-> gs, scored |-> << >>,
                 top |-> << >>, annotations |-> << >>, summary |-> << >>,
                 log |-> << >>, asked |-> 0]
    IN  IF forced.move # None
        THEN [base EXCEPT !.ret = forced.move, !.log = << <<forced.reason, forced.move>> >>]
        ELSE IF legal_moves = << >>
        THEN base
        ELSE LET all    == score_all(gs, legal_moves, 1, player_symbol, rival_symbol)
                 top    == take_top(sort_by_score(all.scored))
                 after  == all.game_state
             IN  [pc          |-> "awaiting",
                  ret         |-> None,
                  game_state  |-> after,
                  scored      |-> all.scored,
                  top         |-> top,
                  annotations |-> [i \in DOMAIN top |->
                                      annotate_move(after, top[i][1], player_symbol, rival_symbol)],
                  summary     |-> summarize_threats(after, player_symbol, rival_symbol),
                  log         |-> << <<"Top 3 moves for LLM", top>>,
                                     <<"Sending DeepSeek prompt to LLM", None>> >>,
                  asked       |-> 1]

----------------------------------------------------------------------------
(* The oracle's response and its parsing *)

\* A response text is a sequence of tokens:
\*   "prose"        text the pattern does not match
\*   "object"       {"row": r, "col": c}: matched and loadable
\*   "leading_zero" {"row": 0r, "col": 0c}: matched by \d+, rejected by json.loads
\*   "reordered"    {"col": c, "row": r}: valid JSON the pattern does not match
Token(kind, cell) == [kind |-> kind, row |-> cell[1], col |-> cell[2]]

\* whether re.search's pattern matches the token's text
pattern_matches(token) == token.kind \in {"object", "leading_zero"}

\* re.search(...): the first match in the text, or None
re_search(text) ==
    IF \E i \in DOMAIN text : pattern_matches(text[i])
    THEN text[CHOOSE i \in DOMAIN text :
                 pattern_matches(text[i]) /\ \A j \in 1..(i - 1) : ~pattern_matches(text[j])]
    ELSE None

\* whether json.loads accepts the matched text
json_loads_ok(match) == match.kind = "object"

\* mutant of is_candidate: any named cell is taken
is_candidate_unchecked(chosen_move, top) == TRUE

\* chosen_move in [m[0] for m in top_moves]
is_candidate(chosen_move, top) == \E i \in DOMAIN top : top[i][1] = chosen_move

\* step 7: the move the try block returns, or None when it falls through
\* (no match, the candidate test fails, or an exception is caught)
parse_answer(text, top) ==
    LET match == re_search(text)
    IN  IF match = None
        THEN [move |-> None, log |-> << >>]
        ELSE IF ~json_loads_ok(match)
        THEN [move |-> None, log |-> << <<"LLM parsing failed", None>> >>]
        ELSE LET chosen_move == <<match.row, match.col>>
             IN  IF is_candidate(chosen_move, top)
                 THEN [move |-> chosen_move, log |-> << <<"LLM chose", chosen_move>> >>]
                 ELSE [move |-> None, log |-> << >>]

----------------------------------------------------------------------------
(* Initial states: the positions the framework may hand to the agent *)

Cells(size) == (0..(size - 1)) \X (0..(size - 1))

\* a board of the given size with stones on the given cells
BoardOf(size, blacks, whites) ==
    [r \in 1..size |-> [c \in 1..size |->
        IF <<r - 1, c - 1>> \in blacks THEN BLACK
        ELSE IF <<r - 1, c - 1>> \in whites THEN WHITE
        ELSE EMPTY]]

\* a full board with no three in a line: rows XXOOXXOO, odd rows shifted by two
Packed(size) ==
    [r \in 1..size |-> [c \in 1..size |->
        IF (((c - 1) + 2 * ((r - 1) % 2)) \div 2) % 2 = 0 THEN BLACK ELSE WHITE]]

\* the base positions: a board and the cells the rule variant forbids
Open(size) == [board |-> BoardOf(size, {}, {}), forbidden |-> {}]

Renju(size) == [board |-> BoardOf(size, {}, {}), forbidden |-> {<<3, 0>>}]

Crowded(size) == [board |-> Packed(size), forbidden |-> {}]

\* two broken columns, for one symbol each, with their gaps on row 3
Columns(size) ==
    [board     |-> BoardOf(size, {<<0, 3>>, <<1, 3>>, <<2, 3>>, <<4, 3>>},
                                 {<<0, 1>>, <<1, 1>>, <<2, 1>>, <<4, 1>>}),
     forbidden |-> {}]

\* a broken diagonal and a broken column with the same gap, on row 3
Diagonals(size) ==
    [board     |-> BoardOf(size, {<<0, 0>>, <<1, 1>>, <<2, 2>>, <<4, 4>>},
                                 {<<0, 3>>, <<1, 3>>, <<2, 3>>, <<4, 3>>}),
     forbidden |-> {}]

\* a broken row and a broken diagonal of one symbol from the same corner
Fan(size) ==
    [board     |-> BoardOf(size, {<<0, 0>>, <<0, 1>>, <<0, 2>>, <<0, 4>>,
                                  <<1, 1>>, <<2, 2>>, <<4, 4>>}, {}),
     forbidden |-> {}]

\* the base positions get_move is run on
Bases(size) ==
    IF size = WINDOW
    THEN {Open(size), Renju(size), Crowded(size), Columns(size), Diagonals(size)}
    ELSE {Open(size), Renju(size)}

\* the base positions the helpers are called on
UnitBases(size) == Bases(size) \cup (IF size = WINDOW THEN {Fan(size)} ELSE {})

\* the cells whose contents vary: the last five cells of row 3
Region(size) == {<<3, c>> : c \in (size - WINDOW)..(size - 1)}

\* a base position with the region's cells set as given
Overlay(base, size, a) ==
    [board      |-> [r \in 1..size |-> [c \in 1..size |->
                        IF <<r - 1, c - 1>> \in Region(size)
                        THEN a[<<r - 1, c - 1>>] ELSE base.board[r][c]]],
     board_size |-> size,
     forbidden  |-> base.forbidden]

GameStates(bases, size) ==
    {Overlay(base, size, a) : base \in bases, a \in [Region(size) -> CellValues]}

NoCall == [op |-> "none", symbol |-> EMPTY, stones |-> 0, empty |-> 0, move |-> None]

InitOn(states) ==
    /\ game_state \in states
    /\ player \in Symbols
    /\ pc = "idle"
    /\ call = NoCall
    /\ entry_board = game_state.board
    /\ scored_moves = << >>
    /\ top_moves = << >>
    /\ annotations = << >>
    /\ threat_summary = << >>
    /\ llm_calls = 0
    /\ content = << >>
    /\ log = << >>
    /\ ret = None

Init == InitOn(UNION {GameStates(Bases(size), size) : size \in WINDOW..MaxSize})

InitUnit == InitOn(UNION {GameStates(UnitBases(size), size) : size \in WINDOW..(MaxSize + 1)})

----------------------------------------------------------------------------
(* The oracle's possible responses *)

\* coordinates a response may name: the best and the last candidate, a legal
\* move that is not a candidate, and a cell off the board
AnswerCells ==
    LET candidates == {top_moves[i][1] : i \in DOMAIN top_moves}
        others     == {scored_moves[i][1] : i \in DOMAIN scored_moves} \ candidates
    IN  {top_moves[1][1], top_moves[Len(top_moves)][1], <<game_state.board_size, 0>>}
        \cup (IF others = {} THEN {} ELSE {CHOOSE m \in others : TRUE})

AnswerTokens ==
    {Token("prose", <<0, 0>>),
     Token("leading_zero", top_moves[1][1]),
     Token("reordered", top_moves[1][1])}
    \cup {Token("object", m) : m \in AnswerCells}

Responses == UNION {[1..n -> AnswerTokens] : n \in 0..MaxTokens}

----------------------------------------------------------------------------
(* Actions *)

\* the framework invokes get_move; it runs to a return or to the await
GetMove ==
    /\ pc = "idle"
    /\ \E out \in {get_move_sync(game_state, player)} :
           /\ pc' = out.pc
           /\ ret' = out.ret
           /\ game_state' = out.game_state
           /\ scored_moves' = out.scored
           /\ top_moves' = out.top
           /\ annotations' = out.annotations
           /\ threat_summary' = out.summary
           /\ log' = out.log
           /\ llm_calls' = llm_calls + out.asked
    /\ call' = [NoCall EXCEPT !.op = "get_move"]
    /\ entry_board' = game_state.board
    /\ UNCHANGED <<player, content>>

\* llm.complete returns a text: steps 7 and 8
LlmComplete ==
    /\ pc = "awaiting"
    /\ \E text \in Responses : \E parsed \in {parse_answer(text, top_moves)} :
           /\ content' = text
           /\ ret' = IF parsed.move # None THEN parsed.move ELSE fallback_move(top_moves)
           /\ log' = log \o << <<"LLM Response", None>> >> \o parsed.log
                         \o (IF parsed.move # None
                             THEN << >>
                             ELSE << <<"Fallback to top scored", fallback_move(top_moves)>> >>)
    /\ pc' = "returned"
    /\ UNCHANGED <<game_state, player, call, entry_board, scored_moves, top_moves,
                   annotations, threat_summary, llm_calls>>

\* llm.complete raises (a transport failure): nothing catches it
LlmRaise ==
    /\ pc = "awaiting"
    /\ pc' = "raised"
    /\ UNCHANGED <<game_state, player, call, entry_board, scored_moves, top_moves,
                   annotations, threat_summary, llm_calls, content, log, ret>>

\* the two threat patterns the agent asks for
Patterns == {<<4, 1>>, <<3, 2>>}

\* _find_threat_move called on its own
FindThreatCall ==
    /\ pc = "idle"
    /\ \E symbol \in Symbols, pattern \in Patterns :
           /\ ret' = find_threat_move(game_state, symbol, pattern[1], pattern[2])
           /\ call' = [op |-> "_find_threat_move", symbol |-> symbol,
                       stones |-> pattern[1], empty |-> pattern[2], move |-> None]
    /\ pc' = "returned"
    /\ entry_board' = game_state.board
    /\ UNCHANGED <<game_state, player, scored_moves, top_moves, annotations,
                   threat_summary, llm_calls, content, log>>

\* the moves _score_move is tried on: rows 2 and 3 and the corner
ProbeMoves(size) == {m \in Cells(size) : m[1] \in {2, 3}} \cup {<<0, 0>>}

\* _score_move called on its own, on any cell, empty or not
ScoreMoveCall ==
    /\ pc = "idle"
    /\ \E move \in ProbeMoves(game_state.board_size) :
       \E out \in {score_move(game_state, move, player, rival_of(player))} :
           /\ ret' = out.score
           /\ game_state' = out.game_state
           /\ call' = [op |-> "_score_move", symbol |-> player,
                       stones |-> 0, empty |-> 0, move |-> move]
    /\ pc' = "returned"
    /\ entry_board' = game_state.board
    /\ UNCHANGED <<player, scored_moves, top_moves, annotations, threat_summary,
                   llm_calls, content, log>>

Next == GetMove \/ LlmComplete \/ LlmRaise

Spec == Init /\ [][Next]_vars

NextUnit == FindThreatCall \/ ScoreMoveCall

SpecUnit == InitUnit /\ [][NextUnit]_vars

----------------------------------------------------------------------------
(* Vocabulary of the properties: the board's geometry stated on its own,   *)
(* not through the scan                                                    *)

Axes == {<<0, 1>>, <<1, 0>>, <<1, 1>>, <<1, -1>>}

\* the cell at offset i of the line that starts at (r, c) along axis d
LineCell(w, i) == <<w.r + i * w.d[1], w.c + i * w.d[2]>>

\* the 5-cell lines that lie wholly on a board of the given size
LinesOn(size) ==
    {w \in [r : 0..(size - 1), c : 0..(size - 1), d : Axes] :
        \A i \in 0..(WINDOW - 1) : LineCell(w, i) \in Cells(size)}

Lines == [size \in WINDOW..(MaxSize + 2) |-> LinesOn(size)]

At(g, m) == g.board[m[1] + 1][m[2] + 1]

Holding(g, w, v) == {i \in 0..(WINDOW - 1) : At(g, LineCell(w, i)) = v}

\* the line holds exactly `stones` cells of `symbol` and `empties` empty cells
Shaped(g, w, symbol, stones, empties) ==
    /\ Cardinality(Holding(g, w, symbol)) = stones
    /\ Cardinality(Holding(g, w, EMPTY)) = empties

FirstEmpty(g, w) ==
    LineCell(w, CHOOSE i \in Holding(g, w, EMPTY) : \A j \in Holding(g, w, EMPTY) : i <= j)

Legal(g, m) == m \in Cells(g.board_size) /\ At(g, m) = EMPTY /\ m \notin g.forbidden

LegalMoves(g) == {m \in Cells(g.board_size) : Legal(g, m)}

\* the lines of a shape, and those among them whose first empty cell is legal
Shapes(g, symbol, stones, empties) ==
    {w \in Lines[g.board_size] : Shaped(g, w, symbol, stones, empties)}

Threats(g, symbol, stones, empties) ==
    {w \in Shapes(g, symbol, stones, empties) : Legal(g, FirstEmpty(g, w))}

\* scan order: start cells row-major, then axes (0,1), (1,0), (1,1), (1,-1)
AxisRank(d) ==
    CASE d = <<0, 1>> -> 0 [] d = <<1, 0>> -> 1 [] d = <<1, 1>> -> 2 [] d = <<1, -1>> -> 3

Rank(g, w) == (w.r * g.board_size + w.c) * 4 + AxisRank(w.d)

FirstOf(g, ws) == CHOOSE w \in ws : \A v \in ws : Rank(g, w) <= Rank(g, v)

\* the game state as it was when the invocation started
EntryState == [game_state EXCEPT !.board = entry_board]

\* the board of g with a stone placed
Placed(g, m, symbol) == [g EXCEPT !.board[m[1] + 1][m[2] + 1] = symbol]

GetMoveDone == call.op = "get_move" /\ pc = "returned"
FindThreatDone == call.op = "_find_threat_move" /\ pc = "returned"
ScoreMoveDone == call.op = "_score_move" /\ pc # "idle"

----------------------------------------------------------------------------
(* Properties *)

\* C1: a get_move invocation that completes returns None or a position that
\* is a valid move on the board as it was when the call started, and it
\* returns None exactly when there is no legal move.
C1_LegalMoveOrNone ==
    GetMoveDone =>
        /\ (ret = None) <=> (get_legal_moves(EntryState) = << >>)
        /\ ret # None => is_valid_move(EntryState, ret[1], ret[2])

\* C1 witness: the oracle's first match named a cell off the board and
\* get_move still returned a valid move.
C1_Witness ==
    /\ GetMoveDone
    /\ llm_calls = 1
    /\ content # << >>
    /\ content[1].kind = "object"
    /\ content[1].row = game_state.board_size
    /\ ret # None
    /\ is_valid_move(EntryState, ret[1], ret[2])

C3_FirstImmediateThreat ==
    (FindThreatDone /\ call.stones = 4 /\ call.empty = 1) =>
        LET threats == Threats(EntryState, call.symbol, 4, 1)
        IN  IF threats = {}
            THEN ret = None
            ELSE ret = FirstEmpty(EntryState, FirstOf(EntryState, threats))

\* C3 witness: two lines of the shape along different axes with different
\* valid empty cells, and a move was returned.
C3_Witness ==
    /\ FindThreatDone /\ call.stones = 4 /\ call.empty = 1
    /\ ret # None
    /\ \E w, v \in Threats(EntryState, call.symbol, 4, 1) :
          /\ w.d # v.d
          /\ FirstEmpty(EntryState, w) # FirstEmpty(EntryState, v)

\* the board of C4: size at least 7, O on (3,3), (3,4), (3,5), nothing else
OpenThreeScenario ==
    /\ game_state.board_size >= 7
    /\ game_state.forbidden = {}
    /\ \A m \in Cells(game_state.board_size) :
          At(EntryState, m) = IF m \in {<<3, 3>>, <<3, 4>>, <<3, 5>>} THEN WHITE ELSE EMPTY

OpenThreeAsked ==
    /\ FindThreatDone
    /\ call.symbol = WHITE /\ call.stones = 3 /\ call.empty = 2
    /\ OpenThreeScenario

\* C4 as stated: on the open-three board _find_threat_move(O, 3, 2) returns
\* (3,2) or (3,6), a cell next to an end of the run.
C4_Original ==
    OpenThreeAsked => ret \in {<<3, 2>>, <<3, 6>>}

\* C4 amended: on the open-three board _find_threat_move(O, 3, 2) returns
\* (3,1), the first empty cell of the first matching line (3,1)..(3,5); that
\* cell is not next to the run.
C4_ReturnsFirstEmptyOfFirstLine ==
    OpenThreeAsked => ret = <<3, 1>>

\* C4 witness: the lookup was made on the open-three board and returned (3,1).
C4_Witness ==
    OpenThreeAsked /\ ret = <<3, 1>>

\* the opponent's symbol
Opponent(symbol) == CHOOSE v \in Symbols : v # symbol

GetMoveEntered == call.op = "get_move" /\ pc # "idle"

\* the cell a set of threat lines yields: the first empty cell of the first line
YieldOf(g, ws) == FirstEmpty(g, FirstOf(g, ws))

\* C5: get_move tries, in this order, its own (4,1) move, the opponent's
\* (4,1) move, the opponent's (3,2) move, and returns the first that exists;
\* with both sides holding a (4,1) threat it returns its own; whenever one
\* of the three exists nothing is scored and the oracle is not called.
C5_PriorityOrder ==
    (GetMoveEntered /\ (llm_calls = 0 \/ pc = "awaiting")) =>
        LET g      == EntryState
            win    == Threats(g, player, 4, 1)
            block  == Threats(g, Opponent(player), 4, 1)
            block3 == Threats(g, Opponent(player), 3, 2)
        IN  /\ win # {} => ret = YieldOf(g, win)
            /\ (win = {} /\ block # {}) => ret = YieldOf(g, block)
            /\ (win = {} /\ block = {} /\ block3 # {}) => ret = YieldOf(g, block3)
            /\ (win \cup block \cup block3) # {} =>
                  pc = "returned" /\ scored_moves = << >> /\ llm_calls = 0
            /\ ((win \cup block \cup block3) = {} /\ LegalMoves(g) # {}) =>
                  llm_calls = 1 /\ Len(scored_moves) = Cardinality(LegalMoves(g))

\* C5 witness: both sides hold a (4,1) threat on different cells, the
\* opponent's line comes first in scan order, and get_move returned its own.
C5_Witness ==
    /\ GetMoveDone
    /\ LET g     == EntryState
           win   == Threats(g, player, 4, 1)
           block == Threats(g, Opponent(player), 4, 1)
       IN  /\ win # {} /\ block # {}
           /\ YieldOf(g, win) # YieldOf(g, block)
           /\ Rank(g, FirstOf(g, block)) < Rank(g, FirstOf(g, win))
           /\ ret = YieldOf(g, win)
    /\ llm_calls = 0

\* C6: _score_move on a legal move leaves every cell of the board as it
\* was, so after get_move has scored every legal move the board is the
\* board it was given.
C6_BoardRestored ==
    GetMoveEntered =>
        /\ game_state.board = entry_board
        /\ pc = "awaiting" =>
              /\ Len(scored_moves) = Cardinality(LegalMoves(EntryState))
              /\ \A m \in LegalMoves(EntryState) :
                    score_move(EntryState, m, player, Opponent(player)).game_state = EntryState

\* C6 witness: get_move scored at least two legal moves and the board is
\* the board it was given.
C6_Witness ==
    /\ GetMoveEntered
    /\ pc = "awaiting"
    /\ Len(scored_moves) >= 2
    /\ game_state.board = entry_board

\* the index in scored_moves of the top-scored move: maximal score, the
\* earliest such in get_legal_moves order
BestIndex ==
    CHOOSE i \in DOMAIN scored_moves :
        /\ \A j \in DOMAIN scored_moves : scored_moves[j][2] <= scored_moves[i][2]
        /\ \A j \in 1..(i - 1) : scored_moves[j][2] < scored_moves[i][2]

Offered == {top_moves[i][1] : i \in DOMAIN top_moves}

\* the positions in the response that the pattern matches
Matches == {i \in DOMAIN content : content[i].kind \in {"object", "leading_zero"}}

FirstMatch == content[CHOOSE i \in Matches : \A j \in Matches : i <= j]

Named == <<FirstMatch.row, FirstMatch.col>>

\* C7: once the oracle has answered, get_move returns the cell named by the
\* first match only if that cell is one of the at most 3 offered top-scored
\* candidates; otherwise it returns the top-scored candidate: a legal move
\* of maximal score, the earliest in get_legal_moves order on ties.
C7_OracleFallback ==
    (GetMoveDone /\ llm_calls = 1) =>
        LET best == scored_moves[BestIndex][1]
            accepted == Matches # {} /\ FirstMatch.kind = "object" /\ Named \in Offered
        IN  /\ [i \in DOMAIN scored_moves |-> scored_moves[i][1]] = get_legal_moves(EntryState)
            /\ Len(top_moves) <= 3
            /\ best \in Offered
            /\ \A i \in DOMAIN scored_moves :
                  scored_moves[i][1] \notin Offered =>
                      \A k \in DOMAIN top_moves : top_moves[k][2] >= scored_moves[i][2]
            /\ accepted => ret = Named
            /\ ~accepted => ret = best
            /\ ret # best => (Matches # {} /\ Named \in Offered /\ ret = Named)

\* C7 witness: several legal moves tie for the top score, the first match
\* names a legal move that was not offered, a later match names an offered
\* candidate other than the best, and get_move returned the best.
C7_Witness ==
    /\ GetMoveDone /\ llm_calls = 1
    /\ Len(content) = 2
    /\ content[1].kind = "object" /\ content[2].kind = "object"
    /\ <<content[1].row, content[1].col>> \in LegalMoves(EntryState) \ Offered
    /\ <<content[2].row, content[2].col>> \in Offered \ {scored_moves[BestIndex][1]}
    /\ \E j \in DOMAIN scored_moves :
          j # BestIndex /\ scored_moves[j][2] = scored_moves[BestIndex][2]
    /\ ret = scored_moves[BestIndex][1]

\* the terms of the score, from their definitions
Centrality(size, m) ==
    LET half    == size \div 2
        dist(x) == IF x >= half THEN x - half ELSE half - x
        sum     == (half - dist(m[1])) + (half - dist(m[2]))
    IN  IF sum > 0 THEN sum ELSE 0

Adjacency(g, m) ==
    LET around == ({<<m[1] + a, m[2] + b>> : a, b \in -1..1} \cap Cells(g.board_size)) \ {m}
    IN  2 * Cardinality({q \in around : At(g, q) \in Symbols})

Bonus(g, symbol, stones, empties, points) ==
    IF Threats(g, symbol, stones, empties) # {} THEN points ELSE 0

\* C8: on an empty cell m, _score_move returns centrality + adjacency + the
\* threat bonuses, the bonuses judged with the own stone placed on m: +50 own
\* (4,1) threat, +45 opponent (4,1) threat, +20 own (3,2) threat, +15
\* opponent (3,2) threat, each on its own.
C8_ScoreFormula ==
    (ScoreMoveDone /\ At(EntryState, call.move) = EMPTY) =>
        LET own   == call.symbol
            after == Placed(EntryState, call.move, own)
        IN  ret = Centrality(game_state.board_size, call.move)
                  + Adjacency(EntryState, call.move)
                  + Bonus(after, own, 4, 1, 50)
                  + Bonus(after, Opponent(own), 4, 1, 45)
                  + Bonus(after, own, 3, 2, 20)
                  + Bonus(after, Opponent(own), 3, 2, 15)

\* C8 witness: an empty cell with stones next to it was scored, and with the
\* stone placed three of the four threats exist: both (4,1) threats and the
\* own (3,2) threat, but no opponent (3,2) threat.
C8_Witness ==
    /\ ScoreMoveDone
    /\ At(EntryState, call.move) = EMPTY
    /\ Adjacency(EntryState, call.move) > 0
    /\ LET after == Placed(EntryState, call.move, call.symbol)
       IN  /\ Threats(after, call.symbol, 4, 1) # {}
           /\ Threats(after, Opponent(call.symbol), 4, 1) # {}
           /\ Threats(after, call.symbol, 3, 2) # {}
           /\ Threats(after, Opponent(call.symbol), 3, 2) = {}

\* C9 as stated: _score_move on an occupied cell fails fast instead of
\* returning a score, and leaves the board unchanged.
C9_OccupiedCellRejected ==
    (ScoreMoveDone /\ At(EntryState, call.move) # EMPTY) =>
        pc = "raised" /\ game_state.board = entry_board

\* C10: when get_move reaches the scoring stage and validity is emptiness,
\* no legal move leaves the opponent a (4,1) or (3,2) line, every score is
\* centrality + adjacency + the two own bonuses, and the threat summary and
\* the annotations report nothing but the agent's own (3,2) threat.
C10_NoOpponentBonus ==
    (GetMoveEntered /\ pc = "awaiting" /\ game_state.forbidden = {}) =>
        /\ \A i \in DOMAIN scored_moves :
              LET m     == scored_moves[i][1]
                  after == Placed(EntryState, m, player)
              IN  /\ Shapes(after, Opponent(player), 4, 1) = {}
                  /\ Shapes(after, Opponent(player), 3, 2) = {}
                  /\ scored_moves[i][2] =
                        Centrality(game_state.board_size, m) + Adjacency(EntryState, m)
                        + Bonus(after, player, 4, 1, 50) + Bonus(after, player, 3, 2, 20)
        /\ \A k \in DOMAIN threat_summary : threat_summary[k][1] = "my3"
        /\ \A i \in DOMAIN annotations : \A k \in DOMAIN annotations[i] :
              annotations[i][k] \in {"Extends your open-3", "Positional advantage"}

\* C10 witness: the scoring stage was reached with the agent holding a (3,2)
\* threat, which the summary and a candidate's annotation report, and some
\* legal move earned the +50 bonus.
C10_Witness ==
    /\ GetMoveEntered /\ pc = "awaiting" /\ game_state.forbidden = {}
    /\ threat_summary # << >>
    /\ \E i \in DOMAIN annotations : annotations[i] = <<"Extends your open-3">>
    /\ \E i \in DOMAIN scored_moves :
          Threats(Placed(EntryState, scored_moves[i][1], player), player, 4, 1) # {}

====
